---------------------------- MODULE Spec2Model ----------------------------
(***************************************************************************)
(* MailHero Basic: the DNS posture verification logic.                     *)
(*                                                                         *)
(*   - the service tool dnsStatus (agent/src/tools/adminOperations.js),    *)
(*     reached through POST /tools/dnsStatus (routes/tools.js);            *)
(*   - the diagnostic script verify-dns (bash, dig +short).                *)
(*                                                                         *)
(* Text is modelled as a sequence of tokens.  A token is an indivisible    *)
(* piece of text; the literals the code searches for ("v=spf1",            *)
(* "v=DKIM1", "v=DMARC1") are single tokens.  A TXT record is a sequence   *)
(* of character-strings (chunks), each a sequence of tokens, as the        *)
(* resolver returns it.  A host name that the script searches for with    *)
(* grep is split into its labels and the characters between them, so that  *)
(* the dots of the pattern can be matched as grep matches them.            *)
(***************************************************************************)
EXTENDS Integers, Sequences, FiniteSets, TLC

VARIABLES
    prog,       \* the call site this run exercises: "tool" or "script"
    zone,       \* the DNS zone the resolver answers from (environment)
    input,      \* the request body posted to /tools/dnsStatus
    pc,         \* position of the dnsStatus invocation in flight
    run,        \* number of invocations started so far
    sel,        \* index of the DKIM selector whose lookup is awaited
    results,    \* the `results` object of the invocation in flight
    score,      \* the `score` local of the last verdict computation
    lookups,    \* resolver calls issued, per invocation
    responses,  \* HTTP responses sent, one per invocation
    spc,        \* position of the diagnostic script
    sh,         \* the script's shell variables
    cmds,       \* dig commands and port probes the script has run
    out,        \* what the script has printed (message tags)
    inv,        \* concurrent dnsStatus invocations: position and locals of each
    zone2,      \* the DNS answers for the domain of the second invocation
    sent,       \* the report returned by each concurrent invocation
    users,      \* table users: rows [id, email, status, quota_mb, password_hash, by]
    aliases,    \* table aliases: rows [user_id, alias_email, by]
    forwarding, \* table forwarding: rows [user_id, forward_to, keep_copy, by]
    audit_log,  \* table audit_log: rows [user_id, action, by], in insertion order
    ops,        \* the user-management calls in flight: request, position, locals
    faults,     \* queries that have been rejected by the database so far
    tpc,        \* position of the deployment test script
    TESTS_PASSED,
    TESTS_TOTAL,
    executed,   \* tests the deployment test script has executed
    exited,     \* exit status of the deployment test script, once it has ended
    errexitArith \* whether the running bash applies set -e to (( )) commands

toolVars   == <<input, pc, run, sel, results, score, lookups, responses>>
scriptVars == <<spc, sh, cmds, out>>
mainVars   == <<prog, zone, toolVars, scriptVars>>
concVars   == <<inv, zone2, sent>>
\* the variables of the other specifications of this module
dbVars     == <<users, aliases, forwarding, audit_log, ops, faults>>
testVars   == <<tpc, TESTS_PASSED, TESTS_TOTAL, executed, exited, errexitArith>>
otherVars  == <<concVars, dbVars, testVars>>
vars       == <<mainVars, otherVars>>

(***************************************************************************)
(* Bounds                                                                  *)
(***************************************************************************)
\* Invocations of dnsStatus against the same zone.
MaxRuns == 2

(***************************************************************************)
(* Text                                                                    *)
(***************************************************************************)
RECURSIVE Join(_)
\* Array.prototype.join(''): the chunks of a TXT record concatenated.
Join(chunks) ==
    IF chunks = <<>> THEN <<>> ELSE Head(chunks) \o Join(Tail(chunks))

\* String.prototype.startsWith
StartsWith(s, p) ==
    /\ Len(s) >= Len(p)
    /\ SubSeq(s, 1, Len(p)) = p

\* String.prototype.includes
Includes(s, p) ==
    \E i \in 1..(Len(s) - Len(p) + 1) : SubSeq(s, i, i + Len(p) - 1) = p

\* Tokens that are one character long.
OneChar == {".", "-", " ", "\""}

\* grep without -F reads its pattern as a basic regular expression: the
\* line matches when some part of it agrees with the pattern, a dot of the
\* pattern standing for any one character and every other token for itself.
Matches(s, p) ==
    \E i \in 1..(Len(s) - Len(p) + 1) :
       \A k \in 1..Len(p) :
          IF p[k] = "." THEN s[i + k - 1] \in OneChar ELSE s[i + k - 1] = p[k]

\* Array.prototype.find, given the predicate's value on each element: the
\* index of the first element satisfying it, 0 if none.
FindIndex(holds) ==
    IF \E i \in 1..Len(holds) : holds[i]
    THEN CHOOSE i \in 1..Len(holds) : holds[i] /\ \A j \in 1..(i - 1) : ~holds[j]
    ELSE 0

\* null / a value, as a sequence of length 0 / 1
Null    == <<>>
Some(x) == <<x>>
\* JavaScript truthiness of a string-or-null: null and '' are falsy.
Truthy(v) == v # Null /\ v[1] # <<>>

(***************************************************************************)
(* The zone                                                                *)
(***************************************************************************)
Domain     == "mailhero.in"
MailServer == "mail.mailhero.in"
\* the same name as text: its labels and the dots between them
MailServerText == <<"mail", ".", "mailhero", ".", "in">>

Ok(recs)   == [st |-> "ok", recs |-> recs]
Fail(code) == [st |-> code, recs |-> <<>>]

\* TXT records (sequences of chunks)
SpfRec      == << <<"v=spf1", " ", "mx">>, <<" ", "-all">> >>
SpfMidRec   == << <<"spf2.0/pra ", "v=spf1">> >>
DkimRec     == << <<"v=DKIM1", "; k=rsa; p=">>, <<"MIIB">> >>
DkimMidRec  == << <<"k=rsa; ">>, <<"v=DKIM1">> >>
DmarcRec    == << <<"v=DMARC1", "; ", "p=none">> >>
SpfFooRec   == << <<"v=spf1", " ", "foo">> >>
SpfIp4Rec   == << <<"v=spf1", " ", "ip4:", "203.0.113.5", " ", "-all">> >>
DmarcRejectRec     == << <<"v=DMARC1", "; ", "p=reject">> >>
DmarcQuarantineRec == << <<"v=DMARC1", "; ", "p=quarantine", "; pct=50">> >>
OtherRec    == << <<"google-site-verification=x">> >>

Mx1 == [exchange |-> MailServerText, priority |-> 10]
Mx2 == [exchange |-> <<"backup.", Domain>>, priority |-> 20]
\* the mail host written in capitals, and a longer name ending in it
MxUpper == [exchange |-> <<"MAIL", ".", "MAILHERO", ".", "IN">>, priority |-> 10]
MxSuper == [exchange |-> <<"old-">> \o MailServerText, priority |-> 20]

Ip1 == <<"203.0.113.5">>
Ip2 == <<"198.51.100.7">>

\* names
DkimName(selector, domain) == <<selector, "._domainkey.", domain>>
DmarcName(domain)          == <<"_dmarc.", domain>>

AllSelectors == {"s1", "default", "selector1", "selector2", "mail"}

\* The resolver's answer for a TXT question.
ZoneTxt(name) ==
    IF name = <<Domain>> THEN zone.txt
    ELSE IF name = DmarcName(Domain) THEN zone.dmarc
    ELSE IF \E s \in AllSelectors : name = DkimName(s, Domain)
         THEN zone.dkim[CHOOSE s \in AllSelectors : name = DkimName(s, Domain)]
    ELSE Fail("NXDOMAIN")

ZoneMx(name) == IF name = <<Domain>> THEN zone.mx ELSE Fail("NXDOMAIN")

(***************************************************************************)
(* The service tool: POST /tools/dnsStatus -> validateTool -> dnsStatus    *)
(***************************************************************************)
\* Request bodies: a body with a domain (possibly the empty string), or
\* a body without the key.
Body(domain) == [hasDomain |-> TRUE, domain |-> domain]
NoDomainBody == [hasDomain |-> FALSE, domain |-> ""]

\* inputSchema of the dnsStatus tool: domain is required and a string.
\* The schema states no minLength, so the empty string satisfies it.
ValidateTool(body) == body.hasDomain

\* const dkimSelectors = ['s1', 'default', 'selector1', 'selector2']
dkimSelectors == <<"s1", "default", "selector1", "selector2">>

\* A faulty variant of NewResults: the report is created with a score key.
NewResultsWithScore(domain) ==
    [domain |-> domain, mx |-> <<>>, spf |-> Null, dkim |-> <<>>,
     dmarc |-> Null, verdict |-> "unknown", score |-> 0]

\* const results = { domain, mx: [], spf: null, dkim: [], dmarc: null,
\*                   verdict: 'unknown' }
NewResults(domain) ==
    [domain |-> domain, mx |-> <<>>, spf |-> Null, dkim |-> <<>>,
     dmarc |-> Null, verdict |-> "unknown"]

\* A faulty variant of Escapes: the try statements have no catch clause.
EscapesUncaught(ans) == ans.st # "ok"

\* Whether a rejected lookup leaves the try statement around it: every
\* lookup is awaited inside try { } catch (error) { log }, so none does.
Escapes(ans) == FALSE

MxEntry(record) == [exchange |-> record.exchange, priority |-> record.priority]

\* try { mxRecords = await dns.resolveMx(domain); results.mx = map } catch
CheckMx(res, ans) ==
    IF ans.st = "ok"
    THEN [res EXCEPT !.mx = [i \in 1..Len(ans.recs) |-> MxEntry(ans.recs[i])]]
    ELSE res

IsSpf(record)   == StartsWith(Join(record), <<"v=spf1">>)
IsDkim(record)  == Includes(Join(record), <<"v=DKIM1">>)
IsDmarc(record) == StartsWith(Join(record), <<"v=DMARC1">>)

\* txtRecords.find(record => ...): index of the record found, 0 if none
FindSpf(recs)   == FindIndex([i \in 1..Len(recs) |-> IsSpf(recs[i])])
FindDkim(recs)  == FindIndex([i \in 1..Len(recs) |-> IsDkim(recs[i])])
FindDmarc(recs) == FindIndex([i \in 1..Len(recs) |-> IsDmarc(recs[i])])

\* try { txtRecords = await dns.resolveTxt(domain); find; join } catch
CheckSpf(res, ans) ==
    IF ans.st = "ok" /\ FindSpf(ans.recs) # 0
    THEN [res EXCEPT !.spf = Some(Join(ans.recs[FindSpf(ans.recs)]))]
    ELSE res

\* A faulty variant of CheckDkim: the loop stops recording after its first match.
CheckDkimFirstOnly(res, selector, ans) ==
    IF res.dkim = <<>> /\ ans.st = "ok" /\ FindDkim(ans.recs) # 0
    THEN [res EXCEPT !.dkim = Append(@,
             [selector |-> selector,
              txt |-> Join(ans.recs[FindDkim(ans.recs)])])]
    ELSE res

\* one iteration of the selector loop
CheckDkim(res, selector, ans) ==
    IF ans.st = "ok" /\ FindDkim(ans.recs) # 0
    THEN [res EXCEPT !.dkim = Append(@,
             [selector |-> selector,
              txt |-> Join(ans.recs[FindDkim(ans.recs)])])]
    ELSE res

\* try { txtRecords = await dns.resolveTxt(`_dmarc.${domain}`); ... } catch
CheckDmarc(res, ans) ==
    IF ans.st = "ok" /\ FindDmarc(ans.recs) # 0
    THEN [res EXCEPT !.dmarc = Some(Join(ans.recs[FindDmarc(ans.recs)]))]
    ELSE res

\* A faulty variant of InitialScore: score is a module-level variable that is not
\* reset between invocations.
CarriedScore == score

\* let score = 0
InitialScore == 0

\* A faulty variant of ScoreOf: the DMARC line is missing.
ScoreOfDmarcIgnored(res) ==
    InitialScore
    + (IF Len(res.mx) > 0 THEN 25 ELSE 0)
    + (IF Truthy(res.spf) THEN 25 ELSE 0)
    + (IF Len(res.dkim) > 0 THEN 25 ELSE 0)

\* A faulty variant of ScoreOf: the A-record rubric of the script, without DMARC and
\* with MX counted for the missing A check.
ScoreOfMxForA(res) ==
    InitialScore
    + (IF Len(res.mx) > 0 THEN 50 ELSE 0)
    + (IF Truthy(res.spf) THEN 25 ELSE 0)
    + (IF Len(res.dkim) > 0 THEN 25 ELSE 0)

\* if (results.mx.length > 0) score += 25; ... spf, dkim, dmarc
ScoreOf(res) ==
    InitialScore
    + (IF Len(res.mx) > 0 THEN 25 ELSE 0)
    + (IF Truthy(res.spf) THEN 25 ELSE 0)
    + (IF Len(res.dkim) > 0 THEN 25 ELSE 0)
    + (IF Truthy(res.dmarc) THEN 25 ELSE 0)

\* A faulty variant of VerdictOf: the final else branch is missing, so the
\* placeholder stays below 75.
VerdictOfNoElse(sc) ==
    IF sc >= 100 THEN "pass" ELSE IF sc >= 75 THEN "warn" ELSE "unknown"

\* A faulty variant of VerdictOf: > 75 for >= 75.
VerdictOfAbove75(sc) ==
    IF sc >= 100 THEN "pass" ELSE IF sc > 75 THEN "warn" ELSE "fail"

\* if (score >= 100) 'pass' else if (score >= 75) 'warn' else 'fail'
VerdictOf(sc) ==
    IF sc >= 100 THEN "pass" ELSE IF sc >= 75 THEN "warn" ELSE "fail"

\* A faulty variant of NextCheck: a failed lookup ends the checklist.
NextCheckStopsOnFailure(p, i, ans) ==
    IF ans.st # "ok" THEN [pc |-> "verdict", sel |-> 0]
    ELSE CASE p = "mx"   -> [pc |-> "spf", sel |-> 0]
           [] p = "spf"  -> [pc |-> "dkim", sel |-> 1]
           [] p = "dkim" -> IF i < Len(dkimSelectors)
                            THEN [pc |-> "dkim", sel |-> i + 1]
                            ELSE [pc |-> "dmarc", sel |-> 0]
           [] OTHER      -> [pc |-> "verdict", sel |-> 0]

\* The check that follows the one at position p (selector index i) once its
\* lookup has settled with answer ans: the checks run one after the other,
\* whatever the answer.
NextCheck(p, i, ans) ==
    CASE p = "mx"   -> [pc |-> "spf", sel |-> 0]
      [] p = "spf"  -> [pc |-> "dkim", sel |-> 1]
      [] p = "dkim" -> IF i < Len(dkimSelectors)
                       THEN [pc |-> "dkim", sel |-> i + 1]
                       ELSE [pc |-> "dmarc", sel |-> 0]
      [] OTHER      -> [pc |-> "verdict", sel |-> 0]

\* A faulty variant of LookupAt: the SPF and the DMARC lookup change places.
LookupAtSwapped(p, i, domain) ==
    CASE p = "mx"    -> [kind |-> "MX", name |-> <<domain>>]
      [] p = "spf"   -> [kind |-> "TXT", name |-> DmarcName(domain)]
      [] p = "dkim"  -> [kind |-> "TXT", name |-> DkimName(dkimSelectors[i], domain)]
      [] OTHER       -> [kind |-> "TXT", name |-> <<domain>>]

\* The resolver call a position stands for.
LookupAt(p, i, domain) ==
    CASE p = "mx"    -> [kind |-> "MX", name |-> <<domain>>]
      [] p = "spf"   -> [kind |-> "TXT", name |-> <<domain>>]
      [] p = "dkim"  -> [kind |-> "TXT", name |-> DkimName(dkimSelectors[i], domain)]
      [] OTHER       -> [kind |-> "TXT", name |-> DmarcName(domain)]

Answer(q) == IF q.kind = "MX" THEN ZoneMx(q.name) ELSE ZoneTxt(q.name)

\* A faulty variant of Issue: the resolver call is made a second time.
IssueTwice(q) == [lookups EXCEPT ![run] = Append(Append(@, q), q)]

\* the call is recorded in the log of the invocation in flight
Issue(q) == [lookups EXCEPT ![run] = Append(@, q)]

Respond(status, body) == Append(responses, [status |-> status, body |-> body])

ErrorBody == [error |-> "Tool execution failed"]

\* What the check at position p makes of the answer.
Check(p, res, i, ans) ==
    CASE p = "mx"   -> CheckMx(res, ans)
      [] p = "spf"  -> CheckSpf(res, ans)
      [] p = "dkim" -> CheckDkim(res, dkimSelectors[i], ans)
      [] OTHER      -> CheckDmarc(res, ans)

\* router.post: validateTool answers an invalid body without calling the
\* handler.
PostRejected ==
    /\ prog = "tool"
    /\ pc = "idle" /\ run < MaxRuns
    /\ ~ValidateTool(input)
    /\ run' = run + 1
    /\ lookups' = Append(lookups, <<>>)
    /\ responses' = Respond(400, ErrorBody)
    /\ UNCHANGED <<otherVars, prog, zone, input, pc, sel, results, score, scriptVars>>

\* router.post: the handler is called; dnsStatus builds `results` and runs
\* to its first await, dns.resolveMx(domain).
PostAccepted ==
    /\ prog = "tool"
    /\ pc = "idle" /\ run < MaxRuns
    /\ ValidateTool(input)
    /\ run' = run + 1
    /\ results' = NewResults(input.domain)
    /\ lookups' = Append(lookups, <<LookupAt("mx", 0, input.domain)>>)
    /\ pc' = "mx" /\ sel' = 0
    /\ UNCHANGED <<otherVars, prog, zone, input, score, responses, scriptVars>>

\* The awaited lookup settles; dnsStatus handles the answer and runs to its
\* next await, or to its return when the DMARC lookup was the one awaited.
Settle(p) ==
    LET ans     == Answer(LookupAt(p, sel, results.domain))
        checked == Check(p, results, sel, ans)
        nxt     == NextCheck(p, sel, ans)
    IN  /\ pc = p
        /\ IF Escapes(ans)
           THEN \* the outer catch rethrows; the router answers 500
                /\ responses' = Respond(500, ErrorBody)
                /\ pc' = "idle" /\ sel' = 0
                /\ UNCHANGED <<results, score, lookups>>
           ELSE IF nxt.pc = "verdict"
           THEN \* score, verdict, return results; res.json(result)
                /\ score' = ScoreOf(checked)
                /\ results' = [checked EXCEPT !.verdict = VerdictOf(ScoreOf(checked))]
                /\ responses' = Respond(200, results')
                /\ pc' = "idle" /\ sel' = 0
                /\ UNCHANGED lookups
           ELSE /\ results' = checked
                /\ pc' = nxt.pc /\ sel' = nxt.sel
                /\ lookups' = Issue(LookupAt(nxt.pc, nxt.sel, results.domain))
                /\ UNCHANGED <<score, responses>>
        /\ UNCHANGED <<otherVars, prog, zone, input, run, scriptVars>>

MxSettled    == Settle("mx")
SpfSettled   == Settle("spf")
DkimSettled  == Settle("dkim")
DmarcSettled == Settle("dmarc")

(***************************************************************************)
(* The diagnostic script verify-dns                                        *)
(***************************************************************************)
\* DKIM_SELECTORS=("s1" "default" "selector1" "mail")
DKIM_SELECTORS == <<"s1", "default", "selector1", "mail">>

\* TOTAL=5
TOTAL == 5

\* What dig writes on stdout when no server answers in time.
TimeoutLine == <<";;", " ", "connection timed out; no servers could be reached">>

PriorityText(n) == IF n = 10 THEN "10" ELSE "20"

\* One line of dig +short per record.
MxLine(record)  == <<PriorityText(record.priority), " ">> \o record.exchange \o <<".">>
ALine(address)  == address
PtrLine(target) == target
RECURSIVE TxtLine(_)
\* a TXT record prints as its character-strings, each in double quotes,
\* separated by a blank
TxtLine(record) ==
    IF record = <<>> THEN <<>>
    ELSE <<"\"">> \o Head(record) \o <<"\"">>
         \o (IF Len(record) > 1 THEN <<" ">> ELSE <<>>) \o TxtLine(Tail(record))

\* stdout of `dig +short <type> <name>`: the records, nothing for a name
\* without records, the diagnostic when the query times out.
DigShort(ans, kind) ==
    IF ans.st = "ok"
    THEN [i \in 1..Len(ans.recs) |->
            CASE kind = "MX"  -> MxLine(ans.recs[i])
              [] kind = "TXT" -> TxtLine(ans.recs[i])
              [] kind = "A"   -> ALine(ans.recs[i])
              [] OTHER        -> PtrLine(ans.recs[i])]
    ELSE IF ans.st = "TIMEOUT" THEN <<TimeoutLine>>
    ELSE <<>>

\* ... | grep "pattern": the lines containing the pattern
Grep(lines, pattern) == SelectSeq(lines, LAMBDA l : Matches(l, pattern))
\* ... | grep -q "p1\|p2\|..."
GrepQ(lines, patterns) ==
    \E i \in 1..Len(lines) : \E p \in patterns : Matches(lines[i], p)

\* [ -n "$VAR" ]
NonEmpty(v) == \E i \in 1..Len(v) : Len(v[i]) > 0

NewShell ==
    [MX_RESULT |-> <<>>, A_RESULT |-> <<>>, SPF_RESULT |-> <<>>,
     DKIM_FOUND |-> FALSE, DMARC_RESULT |-> <<>>, PTR_RESULT |-> <<>>,
     SCORE |-> 0, i |-> 0]

Say(tags) == out \o tags
Ran(kind, name) == Append(cmds, [kind |-> kind, name |-> name])

\* lines 142-150: SCORE
ScriptScore(v) ==
      (IF NonEmpty(v.MX_RESULT) THEN 1 ELSE 0)
    + (IF NonEmpty(v.A_RESULT) THEN 1 ELSE 0)
    + (IF NonEmpty(v.SPF_RESULT) THEN 1 ELSE 0)
    + (IF v.DKIM_FOUND = TRUE THEN 1 ELSE 0)
    + (IF NonEmpty(v.DMARC_RESULT) THEN 1 ELSE 0)

\* A faulty variant of SummaryOf: -ge 4 for -ge 3.
SummaryOfFrom4(sc) ==
    IF sc = TOTAL THEN "excellent" ELSE IF sc >= 4 THEN "good" ELSE "needs_work"

\* lines 154-160: the summary message
SummaryOf(sc) ==
    IF sc = TOTAL THEN "excellent" ELSE IF sc >= 3 THEN "good" ELSE "needs_work"

\* The words of an unquoted $A_RESULT; the first is the argument of -x.
FirstWord(v) == IF NonEmpty(v) THEN <<v[1][1]>> ELSE <<>>
RECURSIVE Unlines(_)
\* the lines of a variable as one text, a newline between two lines
Unlines(v) ==
    IF Len(v) <= 1 THEN Join(v) ELSE Head(v) \o <<"\n">> \o Unlines(Tail(v))
\* "$A_RESULT" inside /dev/tcp/$A_RESULT/<port>: every line of it
HostText(v) == Unlines(v)
\* dig +short -x $A_RESULT: the first word is reverse-resolved, every further
\* line is one more argument, which dig takes as a name to look up
RanDigX(v) ==
    Ran("PTR", FirstWord(v))
       \o [i \in 1..(Len(v) - 1) |-> [kind |-> "A", name |-> v[i + 1]]]

\* lines 24-27 and the MX dig
ScriptStart ==
    /\ prog = "script"
    /\ spc = "start"
    /\ IF zone.dig
       THEN /\ cmds' = Ran("MX", <<Domain>>)
            /\ spc' = "mx"
            /\ out' = Say(<<"verifying">>)
       ELSE /\ out' = Say(<<"verifying", "dig_not_found">>)
            /\ spc' = "exit1"
            /\ UNCHANGED cmds
    /\ UNCHANGED <<otherVars, prog, zone, toolVars, sh>>

\* lines 31-46, then the A dig
DigMxDone ==
    /\ spc = "mx"
    /\ LET r == DigShort(ZoneMx(<<Domain>>), "MX")
       IN  /\ sh' = [sh EXCEPT !.MX_RESULT = r]
           /\ out' = Say(IF NonEmpty(r)
                         THEN <<"mx_found",
                                IF GrepQ(r, {MailServerText})
                                THEN "mx_match" ELSE "mx_nomatch">>
                         ELSE <<"mx_none">>)
    /\ cmds' = Ran("A", <<MailServer>>)
    /\ spc' = "a"
    /\ UNCHANGED <<otherVars, prog, zone, toolVars>>

\* lines 50-55, then the TXT dig
DigADone ==
    /\ spc = "a"
    /\ LET r == DigShort(zone.a, "A")
       IN  /\ sh' = [sh EXCEPT !.A_RESULT = r]
           /\ out' = Say(IF NonEmpty(r) THEN <<"a_found">> ELSE <<"a_none">>)
    /\ cmds' = Ran("TXT", <<Domain>>)
    /\ spc' = "spf"
    /\ UNCHANGED <<otherVars, prog, zone, toolVars>>

\* A faulty variant of SpfMechanisms: the pattern lacks mx.
SpfMechanismsNoMx == {<<"include:">>, <<"a:">>, <<"ip4:">>, <<"ip6:">>}

\* grep -q "include:\|a:\|mx\|ip4:\|ip6:"
SpfMechanisms == {<<"include:">>, <<"a:">>, <<"mx">>, <<"ip4:">>, <<"ip6:">>}

\* lines 59-79, then the dig of the first selector
DigSpfDone ==
    /\ spc = "spf"
    /\ LET r == Grep(DigShort(ZoneTxt(<<Domain>>), "TXT"), <<"v=spf1">>)
       IN  /\ sh' = [sh EXCEPT !.SPF_RESULT = r, !.DKIM_FOUND = FALSE, !.i = 1]
           /\ out' = Say(IF NonEmpty(r)
                         THEN <<"spf_found",
                                IF GrepQ(r, SpfMechanisms)
                                THEN "spf_valid" ELSE "spf_review">>
                         ELSE <<"spf_none">>)
    /\ cmds' = Ran("TXT", DkimName(DKIM_SELECTORS[1], Domain))
    /\ spc' = "dkim"
    /\ UNCHANGED <<otherVars, prog, zone, toolVars>>

\* lines 82-99: one iteration of the selector loop, then the next dig
DigDkimDone ==
    /\ spc = "dkim"
    /\ LET selector == DKIM_SELECTORS[sh.i]
           r     == Grep(DigShort(ZoneTxt(DkimName(selector, Domain)), "TXT"),
                         <<"v=DKIM1">>)
           found == IF NonEmpty(r) THEN TRUE ELSE sh.DKIM_FOUND
           said  == IF NonEmpty(r) THEN <<"dkim_found", selector>> ELSE <<>>
       IN  IF sh.i < Len(DKIM_SELECTORS)
           THEN /\ sh' = [sh EXCEPT !.DKIM_FOUND = found, !.i = @ + 1]
                /\ out' = Say(said)
                /\ cmds' = Ran("TXT", DkimName(DKIM_SELECTORS[sh.i + 1], Domain))
                /\ spc' = "dkim"
           ELSE /\ sh' = [sh EXCEPT !.DKIM_FOUND = found]
                /\ out' = Say(said \o (IF found = FALSE THEN <<"dkim_none">> ELSE <<>>))
                /\ cmds' = Ran("TXT", DmarcName(Domain))
                /\ spc' = "dmarc"
    /\ UNCHANGED <<otherVars, prog, zone, toolVars>>

\* A faulty variant of DmarcSaid: only p=reject counts as enforcement.
DmarcSaidRejectOnly(r) ==
    IF NonEmpty(r)
    THEN <<"dmarc_found",
           IF GrepQ(r, {<<"p=reject">>})
           THEN "dmarc_enforced" ELSE "dmarc_not_enforced">>
    ELSE <<"dmarc_none">>

\* lines 106-119: what the DMARC check prints for the lines it kept
DmarcSaid(r) ==
    IF NonEmpty(r)
    THEN <<"dmarc_found",
           IF GrepQ(r, {<<"p=reject">>, <<"p=quarantine">>})
           THEN "dmarc_enforced" ELSE "dmarc_not_enforced">>
    ELSE <<"dmarc_none">>

SummarySaid(v) == <<"score", SummaryOf(ScriptScore(v))>>

\* lines 103-119; then, without an A result, the PTR check and the port
\* probes are skipped and the script runs through the summary to its end;
\* with one, dig -x is run
DigDmarcDone ==
    /\ spc = "dmarc"
    /\ LET r == Grep(DigShort(ZoneTxt(DmarcName(Domain)), "TXT"), <<"v=DMARC1">>)
           v == [sh EXCEPT !.DMARC_RESULT = r]
       IN  IF NonEmpty(sh.A_RESULT)
           THEN /\ sh' = v
                /\ out' = Say(DmarcSaid(r))
                /\ cmds' = RanDigX(sh.A_RESULT)
                /\ spc' = "ptr"
           ELSE /\ sh' = [v EXCEPT !.SCORE = ScriptScore(v)]
                /\ out' = Say(DmarcSaid(r) \o SummarySaid(v) \o <<"complete">>)
                /\ spc' = "done"
                /\ UNCHANGED cmds
    /\ UNCHANGED <<otherVars, prog, zone, toolVars>>

PtrAnswers ==
    { Fail("NXDOMAIN"), Fail("TIMEOUT"),
      Ok(<< MailServerText \o <<".">> >>),
      Ok(<< <<"host.example.net", ".">> >>),
      Ok(<< <<"MAIL", ".", "MAILHERO", ".", "IN", ".">> >>),
      Ok(<< <<"mail", "-", "mailhero", "-", "in", ".", "static.example.net", ".">> >>) }

\* lines 124-160, then the probe of port 25
DigPtrDone ==
    /\ spc = "ptr"
    /\ \E ans \in PtrAnswers :
         LET r == IF FirstWord(sh.A_RESULT) = Ip1
                  THEN DigShort(ans, "PTR") ELSE <<>>
             v == [sh EXCEPT !.PTR_RESULT = r]
         IN  /\ sh' = [v EXCEPT !.SCORE = ScriptScore(v)]
             /\ out' = Say((IF NonEmpty(r)
                            THEN <<"ptr_found",
                                   IF GrepQ(r, {MailServerText})
                                   THEN "ptr_match" ELSE "ptr_nomatch">>
                            ELSE <<"ptr_none">>) \o SummarySaid(v))
    /\ cmds' = Ran("TCP25", HostText(sh.A_RESULT))
    /\ spc' = "p25"
    /\ UNCHANGED <<otherVars, prog, zone, toolVars>>

\* A probe of /dev/tcp/$A_RESULT/<port> can succeed only when $A_RESULT is
\* one address.
ProbeOutcomes(v) == IF v = <<Ip1>> THEN BOOLEAN ELSE {FALSE}

\* A faulty variant of Probed: a reachable port adds to SCORE.
ProbedScoring(at, port, nextAt, nextKind) ==
    /\ spc = at
    /\ \E ok \in ProbeOutcomes(sh.A_RESULT) :
         /\ out' = Say(<<port, IF ok THEN "reachable" ELSE "unreachable">>
                       \o (IF nextAt = "done" THEN <<"complete">> ELSE <<>>))
         /\ sh' = [sh EXCEPT !.SCORE = IF ok THEN @ + 1 ELSE @]
    /\ cmds' = IF nextAt = "done" THEN cmds ELSE Ran(nextKind, HostText(sh.A_RESULT))
    /\ spc' = nextAt
    /\ UNCHANGED <<otherVars, prog, zone, toolVars>>

Probed(at, port, nextAt, nextKind) ==
    /\ spc = at
    /\ \E ok \in ProbeOutcomes(sh.A_RESULT) :
         out' = Say(<<port, IF ok THEN "reachable" ELSE "unreachable">>
                    \o (IF nextAt = "done" THEN <<"complete">> ELSE <<>>))
    /\ cmds' = IF nextAt = "done" THEN cmds ELSE Ran(nextKind, HostText(sh.A_RESULT))
    /\ spc' = nextAt
    /\ UNCHANGED <<otherVars, prog, zone, toolVars, sh>>

Probe25Done  == Probed("p25", "25", "p587", "TCP587")
Probe587Done == Probed("p587", "587", "p993", "TCP993")
Probe993Done == Probed("p993", "993", "done", "")

(***************************************************************************)
(* Initial states and the specification                                    *)
(***************************************************************************)
NoRecords == Fail("NXDOMAIN")
TimedOut  == Fail("TIMEOUT")

MxAnswers    == {NoRecords, TimedOut, Ok(<<Mx2, Mx1>>)}
TxtAnswers   == {NoRecords, Ok(<<OtherRec>>), Ok(<<OtherRec, SpfRec>>), Ok(<<SpfMidRec>>)}
DkimAnswers  == {NoRecords, Ok(<<OtherRec>>), Ok(<<OtherRec, DkimMidRec>>)}
DkimAnswers2 == {TimedOut, Ok(<<DkimRec>>)}
DmarcAnswers == {TimedOut, Ok(<<OtherRec>>), Ok(<<DmarcRec>>)}

SeqToSet(seq) == {seq[i] : i \in 1..Len(seq)}

\* Zones the service tool is run against: every selector of its list varies.
ToolZones ==
    { [dig |-> TRUE, mx |-> m, a |-> a, txt |-> t, dkim |-> d, dmarc |-> k] :
        m \in MxAnswers, a \in {NoRecords, Ok(<<Ip1>>)}, t \in TxtAnswers,
        d \in { f \in [AllSelectors -> DkimAnswers] : f["mail"] = NoRecords },
        k \in DmarcAnswers }

\* Zones the script is run against.
ScriptZones ==
    { [dig |-> TRUE, mx |-> m, a |-> a, txt |-> t, dkim |-> d, dmarc |-> k] :
        m \in MxAnswers, a \in {NoRecords, TimedOut, Ok(<<Ip1>>)},
        t \in TxtAnswers \ {Ok(<<OtherRec>>)},
        d \in { f \in [AllSelectors -> DkimAnswers \cup DkimAnswers2] :
                  /\ f["selector2"] = NoRecords
                  /\ f["s1"] \in DkimAnswers
                  /\ \A x \in {"default", "selector1", "mail"} : f[x] \in DkimAnswers2 },
        k \in DmarcAnswers }

\* nothing answers: every query times out
DeadZone ==
    [dig |-> TRUE, mx |-> TimedOut, a |-> TimedOut, txt |-> TimedOut,
     dkim |-> [s \in AllSelectors |-> TimedOut], dmarc |-> TimedOut]

\* every record is there
FullZone ==
    [dig |-> TRUE, mx |-> Ok(<<Mx1>>), a |-> Ok(<<Ip1>>), txt |-> Ok(<<SpfRec>>),
     dkim |-> [s \in AllSelectors |-> Ok(<<DkimRec>>)], dmarc |-> Ok(<<DmarcRec>>)]

\* every record is there, one of them in a particular form
VariantZones ==
    { [FullZone EXCEPT !.mx = Ok(<<MxUpper>>)],
      [FullZone EXCEPT !.mx = Ok(<<Mx2, MxSuper>>)],
      [FullZone EXCEPT !.a = Ok(<<Ip1, Ip2>>)],
      [FullZone EXCEPT !.txt = Ok(<<SpfFooRec>>)],
      [FullZone EXCEPT !.txt = Ok(<<SpfIp4Rec>>)],
      [FullZone EXCEPT !.txt = Ok(<<SpfMidRec, SpfFooRec, SpfRec>>)],
      [FullZone EXCEPT !.dmarc = Ok(<<DmarcRejectRec>>)],
      [FullZone EXCEPT !.dmarc = Ok(<<DmarcQuarantineRec>>)] }

Inputs == {Body(Domain), Body(""), NoDomainBody}

\* The concurrent invocations are not part of this specification.
ConcIdle == inv = <<>> /\ zone2 = DeadZone /\ sent = <<>>
\* Nor are the user-management calls and the deployment test script.
DbIdle ==
    /\ users = {} /\ aliases = {} /\ forwarding = {} /\ audit_log = <<>>
    /\ ops = <<>> /\ faults = 0
TestIdle ==
    /\ tpc = 0 /\ TESTS_PASSED = 0 /\ TESTS_TOTAL = 0 /\ executed = 0
    /\ exited = <<>> /\ errexitArith = FALSE
OthersIdle == ConcIdle /\ DbIdle /\ TestIdle

Init ==
    /\ OthersIdle
    /\ prog \in {"tool", "script"}
    /\ input \in (IF prog = "tool" THEN Inputs ELSE {Body(Domain)})
    /\ zone \in (IF prog = "tool"
                 THEN (IF input = Body(Domain)
                       THEN ToolZones \cup VariantZones \cup {DeadZone, FullZone}
                       ELSE {DeadZone, FullZone})
                 ELSE ScriptZones \cup VariantZones
                         \cup {DeadZone, FullZone, [FullZone EXCEPT !.dig = FALSE]})
    /\ pc = "idle" /\ run = 0 /\ sel = 0
    /\ results = NewResults("")
    /\ score = 0
    /\ lookups = <<>>
    /\ responses = <<>>
    /\ spc = "start"
    /\ sh = NewShell
    /\ cmds = <<>>
    /\ out = <<>>

Next ==
    \/ PostRejected
    \/ PostAccepted
    \/ MxSettled
    \/ SpfSettled
    \/ DkimSettled
    \/ DmarcSettled
    \/ ScriptStart
    \/ DigMxDone
    \/ DigADone
    \/ DigSpfDone
    \/ DigDkimDone
    \/ DigDmarcDone
    \/ DigPtrDone
    \/ Probe25Done
    \/ Probe587Done
    \/ Probe993Done

Spec == Init /\ [][Next]_vars

(***************************************************************************)
(* Properties                                                              *)
(***************************************************************************)
\* The reports dnsStatus has returned (HTTP 200 bodies).
Reports == {responses[i].body : i \in {j \in 1..Len(responses) : responses[j].status = 200}}

\* The script has printed its summary.
Summarised == \E i \in 1..Len(out) : out[i] = "score"
Said(tag)  == \E i \in 1..Len(out) : out[i] = tag
SaidOf(tag, x) == \E i \in 1..(Len(out) - 1) : out[i] = tag /\ out[i + 1] = x

\* What the zone holds, independently of either call site.
Answered(ans) == ans.st = "ok" /\ ans.recs # <<>>
ContainsDkim(text)  == Includes(text, <<"v=DKIM1">>)
BeginsSpf(text)     == StartsWith(text, <<"v=spf1">>)
BeginsDmarc(text)   == StartsWith(text, <<"v=DMARC1">>)
ContainsSpf(text)   == Includes(text, <<"v=spf1">>)
ContainsDmarc(text) == Includes(text, <<"v=DMARC1">>)
Texts(ans) == IF ans.st = "ok" THEN {Join(ans.recs[i]) : i \in 1..Len(ans.recs)} ELSE {}

NothingAnswers ==
    /\ ~Answered(zone.mx) /\ ~Answered(zone.a) /\ ~Answered(zone.txt)
    /\ ~Answered(zone.dmarc)
    /\ \A s \in AllSelectors : ~Answered(zone.dkim[s])

\* Flags of a dnsStatus report
MxPresent(r)    == Len(r.mx) > 0
SpfPresent(r)   == r.spf # Null
DkimPresent(r)  == Len(r.dkim) > 0
DmarcPresent(r) == r.dmarc # Null
Count(flags)    == Cardinality({i \in 1..Len(flags) : flags[i]})

\* The score the script printed is sh.SCORE; the checks it reported found.
ScriptFound ==
    <<Said("mx_found"), Said("a_found"), Said("spf_found"),
      Said("dkim_found"), Said("dmarc_found")>>

----------------------------------------------------------------------------
\* C1: when every DNS lookup returns no records or fails, the run reports
\* MX, A, SPF, DKIM and DMARC all absent, a score of 0 and the verdict
\* fail, in the service tool and in the diagnostic script.
C1_NothingAnswersAllAbsent ==
    NothingAnswers =>
      /\ \A r \in Reports :
            /\ ~MxPresent(r) /\ ~SpfPresent(r) /\ ~DkimPresent(r) /\ ~DmarcPresent(r)
            /\ r.verdict = "fail"
      /\ (prog = "tool" /\ Reports # {}) => score = 0
      /\ Summarised =>
            /\ Count(ScriptFound) = 0
            /\ sh.SCORE = 0
            /\ Said("needs_work")

\* C2 as stated: with MX, A, SPF and DKIM present the service tool scores
\* 100 and answers pass; with all five present the script scores 5 of 5.
C2_Original ==
    /\ \A r \in Reports :
          (MxPresent(r) /\ Answered(zone.a) /\ SpfPresent(r) /\ DkimPresent(r))
             => (score = 100 /\ r.verdict = "pass")
    /\ (Summarised /\ Count(ScriptFound) = 5) => (sh.SCORE = TOTAL /\ Said("excellent"))

\* C2 (amended): whenever all rubric checks of the call site are present
\* (MX, SPF, DKIM and DMARC in the service tool; MX, A, SPF, DKIM and DMARC
\* in the script), the score is at its maximum and the verdict is pass.
C2_AllPresentPass ==
    /\ \A r \in Reports :
          (MxPresent(r) /\ SpfPresent(r) /\ DkimPresent(r) /\ DmarcPresent(r))
             => (score = 100 /\ r.verdict = "pass")
    /\ (Summarised /\ Count(ScriptFound) = 5) => (sh.SCORE = TOTAL /\ Said("excellent"))

C2_Witness ==
    /\ prog = "tool" /\ pc = "idle" /\ Reports # {}
    /\ \A r \in Reports :
          MxPresent(r) /\ SpfPresent(r) /\ DkimPresent(r) /\ DmarcPresent(r)

\* C3 as stated: the service tool's score is 25 times the number of true
\* flags among MX-present, A-present, SPF-present and DKIM-present.
C3_Original ==
    \A r \in Reports :
       (pc = "idle" /\ r = responses[Len(responses)].body) =>
          score = 25 * Count(<<MxPresent(r), Answered(zone.a), SpfPresent(r), DkimPresent(r)>>)

\* C3 (amended): the service tool's score is 25 times the number of true
\* flags among MX-present, SPF-present, DKIM-present and DMARC-present.
C3_ScoreIsQuarterPerCheck ==
    \A r \in Reports :
       (pc = "idle" /\ r = responses[Len(responses)].body) =>
          score = 25 * Count(<<MxPresent(r), SpfPresent(r), DkimPresent(r), DmarcPresent(r)>>)

C3_Witness ==
    /\ prog = "tool" /\ pc = "idle" /\ Reports # {}
    /\ score = 50
    /\ \A r \in Reports : DmarcPresent(r) /\ ~MxPresent(r)
    /\ Answered(zone.a)

\* C4: in dnsStatus the verdict is pass iff the score is 100, warn iff the
\* score is at least 75 and below 100, and fail in every other case.
C4_VerdictThresholds ==
    \A r \in Reports :
       (pc = "idle" /\ r = responses[Len(responses)].body) =>
          /\ r.verdict = "pass" <=> score = 100
          /\ r.verdict = "warn" <=> (score >= 75 /\ score < 100)
          /\ r.verdict = "fail" <=> ~(score = 100 \/ (score >= 75 /\ score < 100))
          /\ r.verdict \in {"pass", "warn", "fail"}

C4_Witness ==
    /\ prog = "tool" /\ pc = "idle" /\ Reports # {}
    /\ score = 75
    /\ \A r \in Reports : r.verdict = "warn"

\* C5: in the script the score is the number of present checks among MX, A,
\* SPF, DKIM (any candidate selector matched) and DMARC, out of 5; the
\* summary is the pass message iff the score is 5, the warn message iff it
\* is 3 or 4, the fail message iff it is at most 2.
C5_ScriptScoreAndSummary ==
    Summarised =>
       /\ sh.SCORE = Count(ScriptFound)
       /\ Said("dkim_found") <=> (\E i \in 1..Len(DKIM_SELECTORS) : SaidOf("dkim_found", DKIM_SELECTORS[i]))
       /\ Said("excellent") <=> sh.SCORE = 5
       /\ Said("good") <=> sh.SCORE \in {3, 4}
       /\ Said("needs_work") <=> sh.SCORE <= 2

C5_Witness ==
    /\ Summarised /\ sh.SCORE = 3 /\ Said("good")
    /\ ~Said("dmarc_found") /\ ~Said("dkim_found")

\* The resolver calls one dnsStatus invocation is to make for a domain.
ToolChecklist(d) ==
    {[kind |-> "MX", name |-> <<d>>], [kind |-> "TXT", name |-> <<d>>],
     [kind |-> "TXT", name |-> DmarcName(d)]}
    \cup {[kind |-> "TXT", name |-> DkimName(dkimSelectors[i], d)] : i \in 1..Len(dkimSelectors)}

\* The dig commands of the script's five scored checks.
ScriptChecklist ==
    {[kind |-> "MX", name |-> <<Domain>>], [kind |-> "A", name |-> <<MailServer>>],
     [kind |-> "TXT", name |-> <<Domain>>], [kind |-> "TXT", name |-> DmarcName(Domain)]}
    \cup {[kind |-> "TXT", name |-> DkimName(DKIM_SELECTORS[i], Domain)] : i \in 1..Len(DKIM_SELECTORS)}

Failed(ans) == ans.st # "ok"
EntrySelectors(r)   == {r.dkim[i].selector : i \in 1..Len(r.dkim)}

\* C6: dnsStatus never fails outright: whatever lookups throw, it returns a
\* report, and a failed lookup leaves its field at the absent value (mx
\* empty, spf null, no dkim entry for that selector, dmarc null).
C6_NeverFailsOutright ==
    /\ \A i \in 1..Len(responses) : responses[i].status # 500
    /\ (prog = "tool" /\ ValidateTool(input) /\ pc = "idle") =>
          /\ Len(responses) = run
          /\ \A i \in 1..Len(responses) : responses[i].status = 200
    /\ \A r \in Reports :
          /\ Failed(ZoneMx(<<r.domain>>)) => r.mx = <<>>
          /\ Failed(ZoneTxt(<<r.domain>>)) => r.spf = Null
          /\ Failed(ZoneTxt(DmarcName(r.domain))) => r.dmarc = Null
          /\ \A s \in AllSelectors :
                Failed(ZoneTxt(DkimName(s, r.domain))) => s \notin EntrySelectors(r)

C6_Witness ==
    /\ prog = "tool" /\ pc = "idle" /\ run = 1 /\ Reports # {}
    /\ Failed(zone.mx) /\ Failed(zone.dkim["s1"]) /\ Failed(zone.dmarc)
    /\ \A r \in Reports : SpfPresent(r) /\ DkimPresent(r) /\ r.mx = <<>> /\ r.dmarc = Null

\* C7: the checks do not short-circuit: whatever failed or was absent in
\* earlier checks, every later check still issues its lookup and records
\* its own result.
C7_NoShortCircuit ==
    /\ \A i \in 1..Len(responses) :
          responses[i].status = 200 =>
             ToolChecklist(responses[i].body.domain) \subseteq SeqToSet(lookups[i])
    /\ \A r \in Reports :
          /\ MxPresent(r) <=> Answered(ZoneMx(<<r.domain>>))
          /\ SpfPresent(r) <=> (\E t \in Texts(ZoneTxt(<<r.domain>>)) : BeginsSpf(t))
          /\ DmarcPresent(r) <=> (\E t \in Texts(ZoneTxt(DmarcName(r.domain))) : BeginsDmarc(t))
          /\ \A j \in 1..Len(dkimSelectors) :
                dkimSelectors[j] \in EntrySelectors(r)
                   <=> (\E t \in Texts(ZoneTxt(DkimName(dkimSelectors[j], r.domain))) : ContainsDkim(t))
    /\ Summarised =>
          /\ ScriptChecklist \subseteq SeqToSet(cmds)
          /\ Said("mx_found") \/ Said("mx_none")
          /\ Said("a_found") \/ Said("a_none")
          /\ Said("spf_found") <=> (\E t \in Texts(zone.txt) : ContainsSpf(t))
          /\ Said("dmarc_found") <=> (\E t \in Texts(zone.dmarc) : ContainsDmarc(t))
          /\ \A j \in 1..Len(DKIM_SELECTORS) :
                SaidOf("dkim_found", DKIM_SELECTORS[j])
                   <=> (\E t \in Texts(zone.dkim[DKIM_SELECTORS[j]]) : ContainsDkim(t))

C7_Witness ==
    /\ prog = "tool" /\ pc = "idle" /\ Reports # {}
    /\ Failed(zone.mx) /\ Failed(zone.txt) /\ Failed(zone.dkim["s1"])
    /\ \A r \in Reports : DmarcPresent(r) /\ "selector2" \in EntrySelectors(r)

\* C8: an invocation with an empty domain string is rejected before any
\* resolver call is issued: no MX, TXT, DKIM or DMARC lookup happens for it.
C8_EmptyDomainRejected ==
    (prog = "tool" /\ input = Body("")) =>
       /\ \A i \in 1..Len(lookups) : lookups[i] = <<>>
       /\ Reports = {}

\* C9: DKIM selector enumeration is exhaustive over the candidate list: the
\* report holds an entry for selector s iff s is a candidate and the TXT
\* lookup at s._domainkey.<domain> returned an entry containing v=DKIM1;
\* every matching selector is kept, no other one appears, and DKIM counts
\* as present iff at least one selector matched.
C9_DkimExhaustive ==
    /\ \A r \in Reports :
          /\ \A s \in AllSelectors :
                s \in EntrySelectors(r)
                   <=> /\ s \in SeqToSet(dkimSelectors)
                       /\ (\E t \in Texts(ZoneTxt(DkimName(s, r.domain))) : ContainsDkim(t))
          /\ EntrySelectors(r) \subseteq AllSelectors
          /\ Cardinality(EntrySelectors(r)) = Len(r.dkim)
          /\ \A i \in 1..Len(r.dkim) : ContainsDkim(r.dkim[i].txt)
          /\ DkimPresent(r) <=>
                \E s \in SeqToSet(dkimSelectors) :
                   (\E t \in Texts(ZoneTxt(DkimName(s, r.domain))) : ContainsDkim(t))
    /\ Summarised =>
          /\ \A s \in AllSelectors :
                SaidOf("dkim_found", s)
                   <=> /\ s \in SeqToSet(DKIM_SELECTORS)
                       /\ (\E t \in Texts(zone.dkim[s]) : ContainsDkim(t))
          /\ sh.DKIM_FOUND <=>
                \E s \in SeqToSet(DKIM_SELECTORS) : (\E t \in Texts(zone.dkim[s]) : ContainsDkim(t))
          /\ Said("dkim_none") <=> ~sh.DKIM_FOUND

C9_Witness ==
    /\ prog = "tool" /\ pc = "idle" /\ Reports # {}
    /\ \A r \in Reports : EntrySelectors(r) = {"default", "selector2"}
    /\ Answered(zone.dkim["s1"]) /\ Failed(zone.dkim["selector1"])

\* C10: two invocations for the same domain against the same DNS answers
\* produce identical reports; score and verdict depend on nothing but the
\* observations of the invocation.
C10_SameAnswersSameReport ==
    /\ \A i, j \in 1..Len(responses) : responses[i] = responses[j]
    /\ \A r \in Reports :
          (pc = "idle" /\ r = responses[Len(responses)].body) =>
             LET n == Count(<<MxPresent(r), SpfPresent(r), DkimPresent(r), DmarcPresent(r)>>)
             IN  /\ score = 25 * n
                 /\ r.verdict = (IF n = 4 THEN "pass" ELSE IF n = 3 THEN "warn" ELSE "fail")

C10_Witness ==
    /\ prog = "tool" /\ pc = "idle" /\ run = 2 /\ Len(responses) = 2
    /\ responses[1].status = 200 /\ responses[2].status = 200
    /\ responses[2].body.verdict = "warn"

ReportKeys == {"domain", "mx", "spf", "dkim", "dmarc", "verdict"}

PtrOrProbeRan ==
    \E i \in 1..Len(cmds) : cmds[i].kind \in {"PTR", "TCP25", "TCP587", "TCP993"}
\* The script has reported on the reachability of a port.
PortReported == Said("reachable") \/ Said("unreachable")

\* C13: the PTR lookup and the TCP port probes are performed only when the A
\* check yielded an address; when the A lookup for the mail hostname returns
\* nothing, no reverse lookup and no port probe is issued and no port
\* reachability is reported.
C13_PtrAndProbesNeedAddress ==
    prog = "script" =>
       /\ PtrOrProbeRan => Answered(zone.a)
       /\ ~Answered(zone.a) => ~PortReported /\ sh.PTR_RESULT = <<>>

\* What the script has printed as its summary.
SummariesIn(o) == {o[i + 1] : i \in {j \in 1..(Len(o) - 1) : o[j] = "score"}}
Probing == spc \in {"p25", "p587", "p993"}

\* C14: port reachability is diagnostic only; for fixed DNS answers the
\* score and the summary are the same for every combination of probe
\* outcomes of the ports 25, 587 and 993: they are a function of the dig
\* results alone, and no probe step changes them.
C14_ProbesAreDiagnosticOnly ==
    /\ [](Summarised =>
            /\ sh.SCORE = ScriptScore(sh)
            /\ SummariesIn(out) = {SummaryOf(ScriptScore(sh))})
    /\ [][Probing => /\ sh' = sh
                     /\ SummariesIn(out') = SummariesIn(out)]_vars

C14_Witness ==
    /\ spc = "done" /\ Summarised
    /\ SaidOf("25", "reachable") /\ SaidOf("587", "unreachable")
    /\ SaidOf("993", "reachable")
    /\ sh.SCORE = 3

\* A name in lower case.
LowerToken(t) ==
    CASE t = "MAIL"     -> "mail"
      [] t = "MAILHERO" -> "mailhero"
      [] t = "IN"       -> "in"
      [] OTHER          -> t
LowerText(text) == [i \in 1..Len(text) |-> LowerToken(text[i])]
\* A name without the dot dig prints at its end.
StripDot(text) ==
    IF text # <<>> /\ text[Len(text)] = "." THEN SubSeq(text, 1, Len(text) - 1) ELSE text
\* The exchange printed on a line of MX_RESULT (after the priority and the
\* blank).
ExchangeOf(line) == SubSeq(line, 3, Len(line))

\* C15: the MX check flags a match if and only if at least one returned MX
\* exchange, compared case-insensitively and with its trailing dot removed,
\* equals the mail hostname; an exchange that merely contains the mail
\* hostname as a substring, or differs from it, does not match.
C15_MxMatchIsNormalisedEquality ==
    (prog = "script" /\ Said("mx_found")) =>
       (Said("mx_match")
          <=> /\ Answered(zone.mx)
              /\ \E i \in 1..Len(sh.MX_RESULT) :
                    LowerText(StripDot(ExchangeOf(sh.MX_RESULT[i]))) = MailServerText)

\* C16: the PTR check flags a match if and only if at least one name
\* returned by the reverse lookup contains the mail hostname as a
\* case-sensitive substring; in particular the PTR value mail.mailhero.in.
\* matches the mail hostname mail.mailhero.in.
C16_PtrMatchIsSubstring ==
    (prog = "script" /\ Said("ptr_found")) =>
       /\ Said("ptr_match")
             <=> \E i \in 1..Len(sh.PTR_RESULT) : Includes(sh.PTR_RESULT[i], MailServerText)
       /\ sh.PTR_RESULT = <<MailServerText \o <<".">>>> => Said("ptr_match")

\* The entries of a TXT answer that start with v=spf1, by position.
SpfPrefixed(ans) ==
    IF ans.st = "ok" THEN {i \in 1..Len(ans.recs) : BeginsSpf(Join(ans.recs[i]))} ELSE {}
FirstOf(S) == CHOOSE i \in S : \A j \in S : i <= j

\* C17 for the service tool
C17_Tool ==
    \A r \in Reports :
       LET ans == ZoneTxt(<<r.domain>>)
       IN  /\ SpfPresent(r) <=> SpfPrefixed(ans) # {}
           /\ SpfPresent(r) => r.spf = Some(Join(ans.recs[FirstOf(SpfPrefixed(ans))]))

\* C17 for the script
C17_Script ==
    Summarised =>
       /\ Said("spf_found") <=> SpfPrefixed(zone.txt) # {}
       /\ Said("spf_found") =>
             sh.SPF_RESULT = <<TxtLine(zone.txt.recs[FirstOf(SpfPrefixed(zone.txt))])>>

\* C17: SPF is present if and only if some TXT entry starts with the literal
\* prefix v=spf1, and the value reported is the first such entry in resolver
\* order; a TXT entry that contains v=spf1 elsewhere than at its start does
\* not make SPF present.
C17_SpfIsFirstPrefixedEntry == C17_Tool /\ C17_Script

\* A line of text contains one of the five mechanism substrings.
HasMechanism(line) ==
    \E m \in {"include:", "a:", "mx", "ip4:", "ip6:"} : Includes(line, <<m>>)
\* The script is past its SPF check.
SpfChecked == prog = "script" /\ spc \notin {"start", "exit1", "mx", "a", "spf"}

\* C18: the SPF validity sub-check flags an SPF value plausible if and only
\* if it contains at least one of the substrings include:, a:, mx, ip4:,
\* ip6:; its outcome never changes SPF presence or the score: v=spf1 mx -all
\* (plausible) and v=spf1 foo (not plausible) both count as SPF present.
C18_SpfValidityIsAdvisory ==
    /\ SpfChecked =>
          /\ Said("spf_found") <=> NonEmpty(sh.SPF_RESULT)
          /\ Said("spf_found") =>
                /\ Said("spf_valid")
                      <=> \E i \in 1..Len(sh.SPF_RESULT) : HasMechanism(sh.SPF_RESULT[i])
                /\ Said("spf_review") <=> ~Said("spf_valid")
          /\ ~Said("spf_found") => ~Said("spf_valid") /\ ~Said("spf_review")
          /\ zone.txt = Ok(<<SpfRec>>) => Said("spf_found") /\ Said("spf_valid")
          /\ zone.txt = Ok(<<SpfFooRec>>) => Said("spf_found") /\ Said("spf_review")
    /\ \A r \in Reports :
          (r.domain = Domain /\ zone.txt \in {Ok(<<SpfRec>>), Ok(<<SpfFooRec>>)})
             => SpfPresent(r)
    /\ Summarised =>
          sh.SCORE = Count(<<Said("mx_found"), Said("a_found"),
                             Said("spf_valid") \/ Said("spf_review"),
                             Said("dkim_found"), Said("dmarc_found")>>)

C18_Witness ==
    /\ Summarised /\ zone.txt = Ok(<<SpfFooRec>>)
    /\ Said("spf_found") /\ Said("spf_review") /\ ~Said("spf_valid")
    /\ sh.SCORE = 5 /\ Said("excellent")

\* The script is past its DMARC check.
DmarcChecked == prog = "script" /\ spc \in {"ptr", "p25", "p587", "p993", "done"}
\* A line of text contains an enforcing policy.
HasEnforcingPolicy(line) ==
    Includes(line, <<"p=reject">>) \/ Includes(line, <<"p=quarantine">>)

\* C19: the DMARC policy sub-check flags the policy as enforced if and only
\* if the DMARC value contains p=reject or p=quarantine, and as not enforced
\* otherwise (p=none included); it never changes DMARC presence.
C19_DmarcPolicyIsAdvisory ==
    /\ DmarcChecked =>
          /\ Said("dmarc_found") <=> NonEmpty(sh.DMARC_RESULT)
          /\ Said("dmarc_found") =>
                /\ Said("dmarc_enforced")
                      <=> \E i \in 1..Len(sh.DMARC_RESULT) : HasEnforcingPolicy(sh.DMARC_RESULT[i])
                /\ Said("dmarc_not_enforced") <=> ~Said("dmarc_enforced")
          /\ ~Said("dmarc_found") => ~Said("dmarc_enforced") /\ ~Said("dmarc_not_enforced")
          /\ zone.dmarc = Ok(<<DmarcRec>>) => Said("dmarc_found") /\ Said("dmarc_not_enforced")
          /\ zone.dmarc \in {Ok(<<DmarcRejectRec>>), Ok(<<DmarcQuarantineRec>>)}
                => Said("dmarc_found") /\ Said("dmarc_enforced")
    /\ Summarised =>
          sh.SCORE = Count(<<Said("mx_found"), Said("a_found"), Said("spf_found"),
                             Said("dkim_found"),
                             Said("dmarc_enforced") \/ Said("dmarc_not_enforced")>>)

C19_Witness ==
    /\ Summarised /\ zone.dmarc = Ok(<<DmarcQuarantineRec>>)
    /\ Said("dmarc_found") /\ Said("dmarc_enforced") /\ ~Said("dmarc_not_enforced")
    /\ sh.SCORE = 5

\* C20: when the A lookup returns several addresses, exactly the first
\* returned address is used as the mail-server IP for the PTR lookup and for
\* every port probe.
C20_FirstAddressUsed ==
    (prog = "script" /\ Answered(zone.a)) =>
       \A i \in 1..Len(cmds) :
          /\ cmds[i].kind \in {"PTR", "TCP25", "TCP587", "TCP993"}
                => cmds[i].name = zone.a.recs[1]
          /\ \A j \in 2..Len(zone.a.recs) : cmds[i].name # zone.a.recs[j]

\* How often x occurs in a sequence.
Occurs(seq, x) == Cardinality({i \in 1..Len(seq) : seq[i] = x})

\* C21: each check issues its resolver call exactly once per invocation,
\* with no retry: whatever the lookups return or throw, one invocation
\* issues one MX lookup, one TXT lookup for the domain, one TXT lookup per
\* candidate DKIM selector and one TXT lookup for _dmarc.<domain>.
C21_EachLookupOnce ==
    /\ \A k \in 1..Len(lookups) :
          /\ \A q \in SeqToSet(lookups[k]) : Occurs(lookups[k], q) = 1
          /\ (k <= Len(responses) /\ responses[k].status = 200) =>
                /\ SeqToSet(lookups[k]) = ToolChecklist(responses[k].body.domain)
                /\ Len(lookups[k]) = 3 + Len(dkimSelectors)
    /\ prog = "script" =>
          /\ \A q \in ScriptChecklist : Occurs(cmds, q) <= 1
          /\ Cardinality({i \in 1..Len(cmds) : cmds[i].kind = "PTR"}) <= 1
          /\ Summarised => \A q \in ScriptChecklist : Occurs(cmds, q) = 1

C21_Witness ==
    /\ prog = "tool" /\ pc = "idle" /\ zone = DeadZone
    /\ Len(responses) = 2 /\ responses[2].status = 200
    /\ Len(lookups[1]) = 7 /\ Len(lookups[2]) = 7

IsPrefix(a, b) == Len(a) <= Len(b) /\ SubSeq(b, 1, Len(a)) = a

\* The resolver calls of dnsStatus, in checklist order.
ToolOrder(d) ==
    <<[kind |-> "MX", name |-> <<d>>], [kind |-> "TXT", name |-> <<d>>]>>
    \o [i \in 1..Len(dkimSelectors) |-> [kind |-> "TXT", name |-> DkimName(dkimSelectors[i], d)]]
    \o <<[kind |-> "TXT", name |-> DmarcName(d)]>>
\* The place in ToolOrder of the lookup dnsStatus is awaiting.
AwaitedIndex ==
    CASE pc = "mx" -> 1 [] pc = "spf" -> 2 [] pc = "dkim" -> 2 + sel [] OTHER -> 3 + Len(dkimSelectors)

\* The dig commands of the script's scored checks, in checklist order.
ScriptOrder ==
    <<[kind |-> "MX", name |-> <<Domain>>], [kind |-> "A", name |-> <<MailServer>>],
      [kind |-> "TXT", name |-> <<Domain>>]>>
    \o [i \in 1..Len(DKIM_SELECTORS) |-> [kind |-> "TXT", name |-> DkimName(DKIM_SELECTORS[i], Domain)]]
    \o <<[kind |-> "TXT", name |-> DmarcName(Domain)]>>
\* After them: the reverse lookup (with the further arguments of the same dig
\* command), then the probes.
KindsAfter(n) == [i \in 1..(Len(cmds) - n) |-> cmds[n + i].kind]
ProbeKinds == SelectSeq(KindsAfter(Len(ScriptOrder) + 1), LAMBDA k : k # "A")
HasRun(kind) == \E i \in 1..Len(cmds) : cmds[i].kind = kind

\* C22: the checklist runs in the fixed order MX, A, SPF, DKIM (selectors in
\* candidate-list order), DMARC, PTR, then the port probes 25, 587, 993, and
\* each check's lookup is issued only after the previous check has
\* completed.  (dnsStatus runs MX, SPF, DKIM, DMARC of this list.)
C22_FixedOrder ==
    /\ \A k \in 1..Len(lookups) : IsPrefix(lookups[k], ToolOrder(input.domain))
    /\ pc # "idle" => Len(lookups[run]) = AwaitedIndex
    /\ prog = "script" =>
          /\ IsPrefix(SubSeq(cmds, 1, IF Len(cmds) < Len(ScriptOrder) THEN Len(cmds) ELSE Len(ScriptOrder)),
                      ScriptOrder)
          /\ Len(cmds) > Len(ScriptOrder) =>
                /\ cmds[Len(ScriptOrder) + 1].kind = "PTR"
                /\ IsPrefix(ProbeKinds, <<"TCP25", "TCP587", "TCP993">>)
                /\ \A i \in 1..Len(cmds) :
                      (i > 2 /\ cmds[i].kind = "A") =>
                         \A j \in (Len(ScriptOrder) + 2)..i : cmds[j].kind = "A"
          /\ Len(cmds) >= 2 => Said("mx_found") \/ Said("mx_none")
          /\ Len(cmds) >= 3 => Said("a_found") \/ Said("a_none")
          /\ Len(cmds) >= 4 => Said("spf_found") \/ Said("spf_none")
          /\ Len(cmds) >= Len(ScriptOrder) => Said("dkim_found") \/ Said("dkim_none")
          /\ HasRun("PTR") => Said("dmarc_found") \/ Said("dmarc_none")
          /\ HasRun("TCP25") => Said("ptr_found") \/ Said("ptr_none")
          /\ HasRun("TCP587") => Said("25")
          /\ HasRun("TCP993") => Said("587")

C22_Witness ==
    /\ prog = "script" /\ spc = "done" /\ Len(cmds) = 12
    /\ cmds[9].kind = "PTR" /\ cmds[12].kind = "TCP993"
    /\ Said("993")

(***************************************************************************)
(* Concurrent invocations of dnsStatus                                     *)
(*                                                                         *)
(* Node runs each invocation up to its next await; the awaited lookups of  *)
(* different invocations settle in any order.                              *)
(***************************************************************************)
\* Invocations in flight at the same time.
MaxInvocations == 2
Invocations == 1..MaxInvocations

Domain2 == "example.org"
\* the domain each request names
DomainOf(i) == IF i = 1 THEN Domain ELSE Domain2

\* The resolver's answers, for the names of both domains.
ZoneTxt2(name) ==
    IF name = <<Domain2>> THEN zone2.txt
    ELSE IF name = DmarcName(Domain2) THEN zone2.dmarc
    ELSE IF \E x \in AllSelectors : name = DkimName(x, Domain2)
         THEN zone2.dkim[CHOOSE x \in AllSelectors : name = DkimName(x, Domain2)]
    ELSE ZoneTxt(name)
ZoneMx2(name) == IF name = <<Domain2>> THEN zone2.mx ELSE ZoneMx(name)
Answer2(q) == IF q.kind = "MX" THEN ZoneMx2(q.name) ELSE ZoneTxt2(q.name)

\* A faulty variant of ResultsOf: results is one object at module level.
ResultsShared(i) == inv[1].results

\* const results = { ... } is a local of the call: the object invocation i
\* reads and writes
ResultsOf(i) == inv[i].results

NotStarted == [pc |-> "idle", sel |-> 0, results |-> NewResults(""), score |-> 0]

\* the router calls the handler for request i; dnsStatus runs to its first
\* await
Invoke(i) ==
    /\ prog = "conc"
    /\ inv[i].pc = "idle"
    /\ inv' = [inv EXCEPT ![i] = [pc |-> "mx", sel |-> 0,
                                  results |-> NewResults(DomainOf(i)), score |-> 0]]
    /\ UNCHANGED <<mainVars, dbVars, testVars, zone2, sent>>

\* the lookup invocation i awaits settles; it runs to its next await or to
\* its return
SettleOf(i) ==
    /\ prog = "conc"
    /\ inv[i].pc \in {"mx", "spf", "dkim", "dmarc"}
    /\ LET p       == inv[i].pc
           res     == ResultsOf(i)
           ans     == Answer2(LookupAt(p, inv[i].sel, res.domain))
           checked == Check(p, res, inv[i].sel, ans)
           nxt     == NextCheck(p, inv[i].sel, ans)
       IN  IF nxt.pc = "verdict"
           THEN LET final == [checked EXCEPT !.verdict = VerdictOf(ScoreOf(checked))]
                IN  /\ inv' = [inv EXCEPT ![i] = [pc |-> "done", sel |-> 0,
                                                  results |-> final,
                                                  score |-> ScoreOf(checked)]]
                    /\ sent' = [sent EXCEPT ![i] = Some(final)]
           ELSE /\ inv' = [inv EXCEPT ![i] = [pc |-> nxt.pc, sel |-> nxt.sel,
                                              results |-> checked, score |-> 0]]
                /\ UNCHANGED sent
    /\ UNCHANGED <<mainVars, dbVars, testVars, zone2>>

\* Zones of the two domains: nothing, everything, and two partial ones.
ConcZones ==
    { DeadZone, FullZone,
      [FullZone EXCEPT !.dmarc = NoRecords, !.dkim = [x \in AllSelectors |-> NoRecords]],
      [FullZone EXCEPT !.mx = Ok(<<Mx2>>), !.txt = Ok(<<OtherRec>>),
                       !.dkim = [x \in AllSelectors |->
                                   IF x = "default" THEN Ok(<<DkimRec>>) ELSE TimedOut]] }

ConcInit ==
    /\ DbIdle /\ TestIdle
    /\ prog = "conc"
    /\ input = Body(Domain)
    /\ zone \in ConcZones
    /\ zone2 \in ConcZones
    /\ pc = "idle" /\ run = 0 /\ sel = 0
    /\ results = NewResults("")
    /\ score = 0
    /\ lookups = <<>>
    /\ responses = <<>>
    /\ spc = "start"
    /\ sh = NewShell
    /\ cmds = <<>>
    /\ out = <<>>
    /\ inv = [i \in Invocations |-> NotStarted]
    /\ sent = [i \in Invocations |-> Null]

ConcNext ==
    \/ \E i \in Invocations : Invoke(i)
    \/ \E i \in Invocations : SettleOf(i)

ConcSpec == ConcInit /\ [][ConcNext]_vars

RECURSIVE SoloDkim(_, _, _)
\* The report of an invocation that runs alone for domain d: the checks
\* applied one after the other to the answers for d.
SoloDkim(res, i, d) ==
    IF i > Len(dkimSelectors) THEN res
    ELSE SoloDkim(CheckDkim(res, dkimSelectors[i],
                            ZoneTxt2(DkimName(dkimSelectors[i], d))), i + 1, d)
SoloReport(d) ==
    LET r1 == CheckMx(NewResults(d), ZoneMx2(<<d>>))
        r2 == CheckSpf(r1, ZoneTxt2(<<d>>))
        r3 == SoloDkim(r2, 1, d)
        r4 == CheckDmarc(r3, ZoneTxt2(DmarcName(d)))
    IN  [r4 EXCEPT !.verdict = VerdictOf(ScoreOf(r4))]

\* C23: invocations of dnsStatus share no state: when two invocations for
\* different domains run concurrently and their awaited lookups interleave
\* in any order, each returned report contains only the domain, records,
\* score and verdict derived from its own domain's answers.
C23_InvocationsIndependent ==
    prog = "conc" =>
       \A i \in Invocations :
          sent[i] # Null =>
             LET r == sent[i][1]
             IN  /\ r = SoloReport(DomainOf(i))
                 /\ r.domain = DomainOf(i)
                 /\ MxPresent(r) <=> Answered(ZoneMx2(<<DomainOf(i)>>))
                 /\ \A k \in 1..Len(r.mx) :
                       \E m \in 1..Len(ZoneMx2(<<DomainOf(i)>>).recs) :
                          r.mx[k].exchange = ZoneMx2(<<DomainOf(i)>>).recs[m].exchange
                 /\ inv[i].score = ScoreOf(r)
                 /\ r.verdict = VerdictOf(inv[i].score)

C23_Witness ==
    /\ prog = "conc"
    /\ sent[2] # Null /\ sent[2][1].verdict = "pass"
    /\ inv[1].pc = "dkim" /\ inv[1].sel = 2
    /\ zone = DeadZone /\ zone2 = FullZone

(***************************************************************************)
(* User management (userManagement.js) over the tables of database/init.sql *)
(*                                                                         *)
(* Every call of query() is one statement, committed on its own: the       *)
(* functions open no transaction.  Calls of different requests interleave  *)
(* at their awaits.  Each row carries, as `by`, the call that wrote it     *)
(* (0: it was there before).                                               *)
(***************************************************************************)
\* User-management calls in flight at the same time.
MaxOps == 2
\* Queries the database may reject for reasons of its own (connection lost).
MaxFaults == 1

Alice == "alice@mailhero.in"
Bob   == "bob@mailhero.in"
Info  == "info@mailhero.in"
Sales == "sales@mailhero.in"

Req(op, email) ==
    [op |-> op, email |-> email, aliases |-> <<>>, mode |-> "", alias |-> "",
     forwardTo |-> "", quotaMB |-> 5120]

\* requests, against a database that holds Alice with her alias info@
Requests ==
    { Req("provisionUser", Alice),
      Req("provisionUser", Bob),
      [Req("provisionUser", Bob) EXCEPT !.aliases = <<Sales>>],
      [Req("provisionUser", Bob) EXCEPT !.aliases = <<Sales, Info>>],
      [Req("suspendUser", Alice) EXCEPT !.mode = "suspend"],
      [Req("suspendUser", Alice) EXCEPT !.mode = "delete"],
      [Req("suspendUser", Bob) EXCEPT !.mode = "suspend"],
      Req("setPassword", Alice),
      Req("setPassword", Bob),
      [Req("createAlias", Alice) EXCEPT !.alias = Info],
      [Req("createAlias", Alice) EXCEPT !.alias = Sales],
      [Req("createAlias", Bob) EXCEPT !.alias = Sales],
      [Req("removeAlias", Alice) EXCEPT !.alias = Info],
      [Req("removeAlias", Alice) EXCEPT !.alias = Sales],
      [Req("removeAlias", Bob) EXCEPT !.alias = Info],
      [Req("setForwarding", Alice) EXCEPT !.forwardTo = "one@example.org"],
      [Req("setForwarding", Bob) EXCEPT !.forwardTo = "one@example.org"],
      [Req("setQuota", Alice) EXCEPT !.quotaMB = 2048],
      [Req("setQuota", Bob) EXCEPT !.quotaMB = 2048] }

\* requests that arrive while another one is being served
Rivals ==
    { [Req("setForwarding", Alice) EXCEPT !.forwardTo = "two@example.org"],
      [Req("provisionUser", Bob) EXCEPT !.aliases = <<Sales>>],
      [Req("createAlias", Alice) EXCEPT !.alias = Sales],
      [Req("removeAlias", Alice) EXCEPT !.alias = Info] }

AliceId == 1
\* gen_random_uuid() for the user row written by call o
NewId(o) == 10 + o

UserRow(id, req, o) ==
    [id |-> id, email |-> req.email, status |-> "active", quota_mb |-> req.quotaMB,
     password_hash |-> "hash", by |-> o]

Running(o) == ops[o].pc \notin {"ok", "failed"}
At(o, op, place) == ops[o].req.op = op /\ ops[o].pc = place
Goto(o, place) == [ops EXCEPT ![o].pc = place]
\* the statement changed n rows and the call goes on at place
Wrote(o, n, place) == [ops EXCEPT ![o].pc = place, ![o].writes = @ + n]
\* throw new Error(message): the catch logs and rethrows, the call ends
Throw(o, message) == [ops EXCEPT ![o].pc = "failed", ![o].error = message]
\* SELECT id FROM users WHERE email = $1
IdsOf(email) == {u.id : u \in {x \in users : x.email = email}}

dbFrame == <<mainVars, concVars, testVars>>

\* provisionUser: SELECT id FROM users WHERE email; 'User already exists'
ProvisionSelect(o) ==
    /\ At(o, "provisionUser", "select")
    /\ ops' = IF IdsOf(ops[o].req.email) # {}
              THEN Throw(o, "User already exists")
              ELSE Goto(o, "insert_user")
    /\ UNCHANGED <<users, aliases, forwarding, audit_log, faults, dbFrame>>

\* provisionUser: INSERT INTO users ... RETURNING id (email is UNIQUE)
ProvisionInsertUser(o) ==
    /\ At(o, "provisionUser", "insert_user")
    /\ IF IdsOf(ops[o].req.email) # {}
       THEN /\ ops' = Throw(o, "duplicate key")
            /\ UNCHANGED users
       ELSE /\ users' = users \cup {UserRow(NewId(o), ops[o].req, o)}
            /\ ops' = [ops EXCEPT ![o].userId = NewId(o), ![o].k = 1,
                                  ![o].writes = @ + 1,
                                  ![o].pc = IF ops[o].req.aliases = <<>>
                                            THEN "audit" ELSE "alias"]
    /\ UNCHANGED <<aliases, forwarding, audit_log, faults, dbFrame>>

\* provisionUser: one turn of the alias loop, INSERT INTO aliases
\* (alias_email is UNIQUE)
ProvisionInsertAlias(o) ==
    /\ At(o, "provisionUser", "alias")
    /\ LET alias == ops[o].req.aliases[ops[o].k]
       IN  IF \E a \in aliases : a.alias_email = alias
           THEN /\ ops' = Throw(o, "duplicate key")
                /\ UNCHANGED aliases
           ELSE /\ aliases' = aliases \cup {[user_id |-> ops[o].userId,
                                             alias_email |-> alias, by |-> o]}
                /\ ops' = [ops EXCEPT ![o].k = @ + 1,
                                      ![o].writes = @ + 1,
                                      ![o].pc = IF ops[o].k = Len(ops[o].req.aliases)
                                                THEN "audit" ELSE "alias"]
    /\ UNCHANGED <<users, forwarding, audit_log, faults, dbFrame>>

\* What follows the user lookup in each of the other functions.
AfterSelect(op) ==
    CASE op = "createAlias"   -> "select_alias"
      [] op = "removeAlias"   -> "delete_alias"
      [] op = "setForwarding" -> "delete_fw"
      [] OTHER                -> "update"

\* suspendUser, setPassword, createAlias, removeAlias, setForwarding,
\* setQuota: SELECT id FROM users WHERE email; 'User not found'
SelectUser(o) ==
    /\ ops[o].req.op # "provisionUser" /\ ops[o].pc = "select"
    /\ ops' = IF IdsOf(ops[o].req.email) = {}
              THEN Throw(o, "User not found")
              ELSE [ops EXCEPT ![o].userId = CHOOSE id \in IdsOf(ops[o].req.email) : TRUE,
                               ![o].pc = AfterSelect(ops[o].req.op)]
    /\ UNCHANGED <<users, aliases, forwarding, audit_log, faults, dbFrame>>

\* The row after the UPDATE of the function.
Updated(u, req) ==
    CASE req.op = "suspendUser" ->
            [u EXCEPT !.status = IF req.mode = "suspend" THEN "suspended" ELSE "deleted"]
      [] req.op = "setPassword" -> [u EXCEPT !.password_hash = "newhash"]
      [] OTHER                  -> [u EXCEPT !.quota_mb = req.quotaMB]

\* suspendUser, setPassword, setQuota: UPDATE users SET ... WHERE id = $2
UpdateUser(o) ==
    /\ ops[o].req.op \in {"suspendUser", "setPassword", "setQuota"}
    /\ ops[o].pc = "update"
    /\ users' = {IF u.id = ops[o].userId THEN Updated(u, ops[o].req) ELSE u : u \in users}
    /\ ops' = Wrote(o, Cardinality({u \in users : u.id = ops[o].userId}), "audit")
    /\ UNCHANGED <<aliases, forwarding, audit_log, faults, dbFrame>>

\* createAlias: SELECT id FROM aliases WHERE alias_email; 'Alias already exists'
CreateAliasSelect(o) ==
    /\ At(o, "createAlias", "select_alias")
    /\ ops' = IF \E a \in aliases : a.alias_email = ops[o].req.alias
              THEN Throw(o, "Alias already exists")
              ELSE Goto(o, "insert_alias")
    /\ UNCHANGED <<users, aliases, forwarding, audit_log, faults, dbFrame>>

\* createAlias: INSERT INTO aliases (alias_email is UNIQUE)
CreateAliasInsert(o) ==
    /\ At(o, "createAlias", "insert_alias")
    /\ IF \E a \in aliases : a.alias_email = ops[o].req.alias
       THEN /\ ops' = Throw(o, "duplicate key")
            /\ UNCHANGED aliases
       ELSE /\ aliases' = aliases \cup {[user_id |-> ops[o].userId,
                                         alias_email |-> ops[o].req.alias, by |-> o]}
            /\ ops' = Wrote(o, 1, "audit")
    /\ UNCHANGED <<users, forwarding, audit_log, faults, dbFrame>>

\* removeAlias: DELETE FROM aliases WHERE user_id AND alias_email;
\* rowCount 0: 'Alias not found'
RemoveAliasDelete(o) ==
    /\ At(o, "removeAlias", "delete_alias")
    /\ LET rows == {a \in aliases : a.user_id = ops[o].userId
                                    /\ a.alias_email = ops[o].req.alias}
       IN  /\ aliases' = aliases \ rows
           /\ ops' = IF rows = {} THEN Throw(o, "Alias not found")
                                   ELSE Wrote(o, Cardinality(rows), "audit")
    /\ UNCHANGED <<users, forwarding, audit_log, faults, dbFrame>>

\* SELECT * FROM forwarding WHERE user_id = id
RulesOf(id) == {f \in forwarding : f.user_id = id}

\* setForwarding: DELETE FROM forwarding WHERE user_id = $1
ForwardingDelete(o) ==
    /\ At(o, "setForwarding", "delete_fw")
    /\ forwarding' = {f \in forwarding : f.user_id # ops[o].userId}
    /\ ops' = Wrote(o, Cardinality(RulesOf(ops[o].userId)), "insert_fw")
    /\ UNCHANGED <<users, aliases, audit_log, faults, dbFrame>>

\* setForwarding: INSERT INTO forwarding (user_id, forward_to, keep_copy)
ForwardingInsert(o) ==
    /\ At(o, "setForwarding", "insert_fw")
    /\ forwarding' = forwarding \cup {[user_id |-> ops[o].userId,
                                       forward_to |-> ops[o].req.forwardTo,
                                       keep_copy |-> TRUE, by |-> o]}
    /\ ops' = Wrote(o, 1, "audit")
    /\ UNCHANGED <<users, aliases, audit_log, faults, dbFrame>>

AuditAction(req) ==
    CASE req.op = "provisionUser" -> "USER_CREATED"
      [] req.op = "suspendUser"   -> IF req.mode = "suspend" THEN "USER_SUSPENDED"
                                                             ELSE "USER_DELETED"
      [] req.op = "setPassword"   -> "PASSWORD_CHANGED"
      [] req.op = "createAlias"   -> "ALIAS_CREATED"
      [] req.op = "removeAlias"   -> "ALIAS_REMOVED"
      [] req.op = "setForwarding" -> "FORWARDING_SET"
      [] OTHER                    -> "QUOTA_CHANGED"

\* A function that logs the action before and after its change.
WriteAuditTwice(o) ==
    /\ ops[o].pc = "audit"
    /\ LET entry == [user_id |-> ops[o].userId,
                     action |-> AuditAction(ops[o].req), by |-> o]
       IN  audit_log' = Append(Append(audit_log, entry), entry)
    /\ ops' = Wrote(o, 2, "ok")
    /\ UNCHANGED <<users, aliases, forwarding, faults, dbFrame>>

\* every function: INSERT INTO audit_log (user_id, action, details), then
\* return
WriteAudit(o) ==
    /\ ops[o].pc = "audit"
    /\ audit_log' = Append(audit_log, [user_id |-> ops[o].userId,
                                       action |-> AuditAction(ops[o].req), by |-> o])
    /\ ops' = Wrote(o, 1, "ok")
    /\ UNCHANGED <<users, aliases, forwarding, faults, dbFrame>>

\* the awaited query is rejected by the database (connection lost, server
\* restarting): the catch logs and rethrows
QueryFails(o) ==
    /\ Running(o)
    /\ faults < MaxFaults
    /\ faults' = faults + 1
    /\ ops' = Throw(o, "database error")
    /\ UNCHANGED <<users, aliases, forwarding, audit_log, dbFrame>>

\* A call at its first statement; writes counts the rows the call has
\* inserted, updated or deleted so far, in any table.
NewOp(req) ==
    [req |-> req, pc |-> "select", userId |-> 0, k |-> 0, error |-> "", writes |-> 0]

DbInit ==
    /\ ConcIdle /\ TestIdle
    /\ prog = "db"
    /\ input = Body(Domain)
    /\ zone = DeadZone
    /\ pc = "idle" /\ run = 0 /\ sel = 0
    /\ results = NewResults("")
    /\ score = 0
    /\ lookups = <<>>
    /\ responses = <<>>
    /\ spc = "start"
    /\ sh = NewShell
    /\ cmds = <<>>
    /\ out = <<>>
    /\ users = {[UserRow(AliceId, Req("", Alice), 0) EXCEPT !.password_hash = "hash"]}
    /\ aliases = {[user_id |-> AliceId, alias_email |-> Info, by |-> 0]}
    /\ forwarding = {[user_id |-> AliceId, forward_to |-> "zero@example.org",
                      keep_copy |-> TRUE, by |-> 0]}
    /\ audit_log = <<>>
    /\ ops \in {f \in [1..MaxOps -> {NewOp(r) : r \in Requests \cup Rivals}] :
                   /\ f[1].req \in Requests
                   /\ \A o \in 2..MaxOps : f[o].req \in Rivals}
    /\ faults = 0

DbNext ==
    \/ \E o \in 1..MaxOps : ProvisionSelect(o)
    \/ \E o \in 1..MaxOps : ProvisionInsertUser(o)
    \/ \E o \in 1..MaxOps : ProvisionInsertAlias(o)
    \/ \E o \in 1..MaxOps : SelectUser(o)
    \/ \E o \in 1..MaxOps : UpdateUser(o)
    \/ \E o \in 1..MaxOps : CreateAliasSelect(o)
    \/ \E o \in 1..MaxOps : CreateAliasInsert(o)
    \/ \E o \in 1..MaxOps : RemoveAliasDelete(o)
    \/ \E o \in 1..MaxOps : ForwardingDelete(o)
    \/ \E o \in 1..MaxOps : ForwardingInsert(o)
    \/ \E o \in 1..MaxOps : WriteAudit(o)
    \/ \E o \in 1..MaxOps : QueryFails(o)

DbSpec == DbInit /\ [][DbNext]_vars

\* Rows a call has written and that are in the tables.
UsersBy(o)   == {u \in users : u.by = o}
AliasesBy(o) == {a \in aliases : a.by = o}
ForwardsBy(o) == {f \in forwarding : f.by = o}
AuditsBy(o)  == {i \in 1..Len(audit_log) : audit_log[i].by = o}

\* C24: provisionUser is all-or-nothing: whenever it fails (the email
\* already exists, or inserting one of the requested aliases or the audit
\* entry fails), the users, aliases and audit_log tables are left as they
\* were before the call; in particular no user row exists without its
\* requested aliases and its USER_CREATED audit entry.
C24_ProvisionAllOrNothing ==
    prog = "db" =>
       \A o \in 1..MaxOps :
          (ops[o].req.op = "provisionUser" /\ ops[o].pc = "failed") =>
             /\ UsersBy(o) = {} /\ AliasesBy(o) = {} /\ AuditsBy(o) = {}
             /\ \A u \in UsersBy(o) :
                   /\ \A k \in 1..Len(ops[o].req.aliases) :
                         \E a \in aliases : a.user_id = u.id
                                            /\ a.alias_email = ops[o].req.aliases[k]
                   /\ \E i \in 1..Len(audit_log) :
                         audit_log[i].user_id = u.id /\ audit_log[i].action = "USER_CREATED"

\* The setForwarding calls for a user that have returned, in the order of
\* their return (their audit entry is their last statement).
ForwardingSets(id) ==
    SelectSeq(audit_log, LAMBDA e : e.action = "FORWARDING_SET" /\ e.user_id = id)
NoForwardingCallRunning ==
    \A o \in 1..MaxOps : ops[o].req.op = "setForwarding" => ~Running(o)

\* C25: after any sequence of setForwarding calls for one user, including
\* two calls whose delete and insert statements interleave, the forwarding
\* table holds at most one rule for that user, and it is the rule of the
\* call that completed last.
C25_OneForwardingRule ==
    (prog = "db" /\ NoForwardingCallRunning) =>
       \A id \in {u.id : u \in users} :
          /\ Cardinality(RulesOf(id)) <= 1
          /\ ForwardingSets(id) # <<>> =>
                LET last == ForwardingSets(id)[Len(ForwardingSets(id))].by
                IN  \A f \in RulesOf(id) :
                       f.by = last /\ f.forward_to = ops[last].req.forwardTo

\* The messages of the four rejections the functions raise themselves.
Rejections ==
    {"User not found", "User already exists", "Alias already exists", "Alias not found"}

\* C26: every user-management operation that returns successfully has
\* appended exactly one audit_log entry, and that entry is for the affected
\* user; an operation rejected with 'User not found', 'User already
\* exists', 'Alias already exists' or 'Alias not found' has appended none
\* and has changed no row of any table.
C26_OneAuditPerSuccess ==
    prog = "db" =>
       \A o \in 1..MaxOps :
          /\ ops[o].pc = "ok" =>
                /\ Cardinality(AuditsBy(o)) = 1
                /\ \A i \in AuditsBy(o) :
                      /\ audit_log[i].action = AuditAction(ops[o].req)
                      /\ \E u \in users : /\ u.id = audit_log[i].user_id
                                          /\ u.email = ops[o].req.email
          /\ (ops[o].pc = "failed" /\ ops[o].error \in Rejections) =>
                /\ AuditsBy(o) = {}
                /\ ops[o].writes = 0
                /\ UsersBy(o) = {} /\ AliasesBy(o) = {} /\ ForwardsBy(o) = {}

\* Two calls have ended, one with its audit entry written and one rejected
\* with 'Alias not found' after its DELETE.
C26_Witness ==
    /\ prog = "db"
    /\ ops[1].pc = "failed" /\ ops[1].error = "Alias not found"
    /\ ops[2].pc = "ok" /\ Len(audit_log) = 1

(***************************************************************************)
(* The deployment test script (src/unnamed/part_001)                       *)
(***************************************************************************)
\* The statements of the script that run a test or touch a counter, in the
\* order of the file: 19 run_test calls (46-81), the user provisioning
\* test (90-101) with the three run_test calls and the cleanup of its then
\* branch (104-116), its count (122), three run_test calls (126-128), the
\* response time test (133-139), its count (140), three run_test calls
\* (144-146) and the summary (149-165).
Steps ==
    [i \in 1..19 |-> "run_test"]
    \o <<"create", "run_test", "run_test", "run_test", "cleanup", "count">>
    \o <<"run_test", "run_test", "run_test", "response_time", "count">>
    \o <<"run_test", "run_test", "run_test", "summary">>

\* the statement after the fi of line 120
AfterProvisioning == 25
\* curl could not connect
CurlFailed == 7

\* set -e ends the script when a (( )) command returns status 1, which
\* ((x++)) does when x was 0, in a bash that applies set -e to (( )).
ArithExits(old) == errexitArith /\ old = 0
\* The status of ((x++)).
ArithStatus(old) == IF old = 0 THEN 1 ELSE 0

AtStep(kind) == prog = "test" /\ exited = <<>> /\ tpc \in 1..Len(Steps) /\ Steps[tpc] = kind

testFrame == <<mainVars, concVars, dbVars, errexitArith>>

\* run_test (28-42), called as a simple command: ((TESTS_TOTAL++)), the
\* eval of the command, ((TESTS_PASSED++)) when it passed. The function
\* returns the status of its last command, and set -e ends the script when
\* that is not 0.
RunTest ==
    /\ AtStep("run_test")
    /\ \E passes \in BOOLEAN :
          IF ArithExits(TESTS_TOTAL)
          THEN /\ TESTS_TOTAL' = TESTS_TOTAL + 1
               /\ exited' = <<1>>
               /\ UNCHANGED <<tpc, TESTS_PASSED, executed>>
          ELSE /\ TESTS_TOTAL' = TESTS_TOTAL + 1
               /\ executed' = executed + 1
               /\ IF passes
                  THEN /\ TESTS_PASSED' = TESTS_PASSED + 1
                       /\ IF ArithStatus(TESTS_PASSED) # 0
                          THEN exited' = <<1>> /\ UNCHANGED tpc
                          ELSE tpc' = tpc + 1 /\ UNCHANGED exited
                  ELSE /\ tpc' = tpc + 1
                       /\ UNCHANGED <<TESTS_PASSED, exited>>
    /\ UNCHANGED testFrame

\* CREATE_USER_RESPONSE=$(curl -s ...) (90-97): the assignment has the
\* status of curl; then the grep for "status":"created" and
\* ((TESTS_PASSED++)) (99-101), or the else branch (117-120).
CreateUser ==
    /\ AtStep("create")
    /\ executed' = executed + 1
    /\ \E outcome \in {"no connection", "created", "refused"} :
          CASE outcome = "no connection" ->
                  /\ exited' = <<CurlFailed>>
                  /\ UNCHANGED <<tpc, TESTS_PASSED>>
            [] outcome = "created" ->
                  /\ TESTS_PASSED' = TESTS_PASSED + 1
                  /\ IF ArithExits(TESTS_PASSED)
                     THEN exited' = <<1>> /\ UNCHANGED tpc
                     ELSE tpc' = tpc + 1 /\ UNCHANGED exited
            [] OTHER ->
                  /\ tpc' = AfterProvisioning
                  /\ UNCHANGED <<TESTS_PASSED, exited>>
    /\ UNCHANGED <<TESTS_TOTAL, testFrame>>

\* curl -s -X POST .../suspendUser ... >/dev/null (114-116)
Cleanup ==
    /\ AtStep("cleanup")
    /\ \E connected \in BOOLEAN :
          IF connected THEN tpc' = tpc + 1 /\ UNCHANGED exited
                       ELSE exited' = <<CurlFailed>> /\ UNCHANGED tpc
    /\ UNCHANGED <<TESTS_PASSED, TESTS_TOTAL, executed, testFrame>>

\* ((TESTS_TOTAL++)) at the top level (122, 140)
CountTest ==
    /\ AtStep("count")
    /\ TESTS_TOTAL' = TESTS_TOTAL + 1
    /\ IF ArithExits(TESTS_TOTAL)
       THEN exited' = <<1>> /\ UNCHANGED tpc
       ELSE tpc' = tpc + 1 /\ UNCHANGED exited
    /\ UNCHANGED <<TESTS_PASSED, executed, testFrame>>

\* RESPONSE_TIME=$(curl -o /dev/null -s -w '%{time_total}' ...) (133), the
\* comparison with 1.0 and ((TESTS_PASSED++)) (134-139)
ResponseTime ==
    /\ AtStep("response_time")
    /\ executed' = executed + 1
    /\ \E outcome \in {"no connection", "fast", "slow"} :
          CASE outcome = "no connection" ->
                  /\ exited' = <<CurlFailed>>
                  /\ UNCHANGED <<tpc, TESTS_PASSED>>
            [] outcome = "fast" ->
                  /\ TESTS_PASSED' = TESTS_PASSED + 1
                  /\ IF ArithExits(TESTS_PASSED)
                     THEN exited' = <<1>> /\ UNCHANGED tpc
                     ELSE tpc' = tpc + 1 /\ UNCHANGED exited
            [] OTHER ->
                  /\ tpc' = tpc + 1
                  /\ UNCHANGED <<TESTS_PASSED, exited>>
    /\ UNCHANGED <<TESTS_TOTAL, testFrame>>

\* PASS_RATE=$(( TESTS_PASSED * 100 / TESTS_TOTAL ))
PASS_RATE == (TESTS_PASSED * 100) \div TESTS_TOTAL

\* the final summary (149-165): exit 0 when PASS_RATE is 100, exit 1 in
\* the two other branches
Summary ==
    /\ AtStep("summary")
    /\ exited' = <<IF PASS_RATE = 100 THEN 0 ELSE 1>>
    /\ tpc' = tpc + 1
    /\ UNCHANGED <<TESTS_PASSED, TESTS_TOTAL, executed, testFrame>>

TestInit ==
    /\ ConcIdle /\ DbIdle
    /\ prog = "test"
    /\ input = Body(Domain)
    /\ zone = DeadZone
    /\ pc = "idle" /\ run = 0 /\ sel = 0
    /\ results = NewResults("")
    /\ score = 0
    /\ lookups = <<>>
    /\ responses = <<>>
    /\ spc = "start"
    /\ sh = NewShell
    /\ cmds = <<>>
    /\ out = <<>>
    /\ tpc = 1
    /\ TESTS_PASSED = 0
    /\ TESTS_TOTAL = 0
    /\ executed = 0
    /\ exited = <<>>
    /\ errexitArith \in BOOLEAN

TestNext ==
    \/ RunTest
    \/ CreateUser
    \/ Cleanup
    \/ CountTest
    \/ ResponseTime
    \/ Summary

TestSpec == TestInit /\ [][TestNext]_vars

\* The test script has printed its summary.
TestsSummarised == tpc = Len(Steps) + 1

\* C27: the deployment test script always runs every test through to the
\* final summary, where TESTS_PASSED is at most TESTS_TOTAL and TESTS_TOTAL
\* is the number of tests executed, and it exits with status 0 iff every
\* counted test passed and with status 1 otherwise.
C27_RunsToSummary ==
    (prog = "test" /\ exited # <<>>) =>
       /\ TestsSummarised
       /\ TESTS_PASSED <= TESTS_TOTAL
       /\ TESTS_TOTAL = executed
       /\ exited[1] = (IF TESTS_PASSED = TESTS_TOTAL THEN 0 ELSE 1)

=============================================================================
